---------------------------- MODULE Spec2Model ----------------------------
(***************************************************************************)
(* Model of RegexRuleFinder (src/main.py): the tokenizer SentenceSplit     *)
(* (split, sentence, regex, type, merge), the per-position WordClassfier   *)
(* (put, put_all, regex) and the driver re_finder with the verification    *)
(* loop of __main__.                                                       *)
(*                                                                         *)
(* A Python str is a sequence of one-character strings.  A generated       *)
(* pattern is a sequence of pattern tokens (Tok), one per syntactic unit   *)
(* of the pattern text the code concatenates; the matcher re-parses the    *)
(* flat token sequence with the precedence of Python's re module, so a     *)
(* concatenation of fragments binds exactly as the concatenated text does. *)
(***************************************************************************)
EXTENDS Integers, Sequences, FiniteSets, TLC

VARIABLES
    t_pc,        \* tokenizer/merger: "idle", "split", "split_raised", "merge", "merge_raised", "merged"
    t_sentence,  \* the argument of SentenceSplit.split
    t_rec,       \* the record split returned
    t_err,       \* the exception split or merge raised ("" when none)
    m_self,      \* the record merge was called on
    m_given,     \* a copy of that record taken at the call
    m_target,    \* target_words_num
    m_cur,       \* self of the innermost merge call
    m_prev,      \* self of the call before it
    m_idx,       \* max_priority_index of the last fusion (0-based, -1 before any)
    c_obj,       \* a WordClassfier instance
    c_nput,      \* number of put calls made on it from outside
    c_call,      \* the last method called on it: "init", "put", "put_all", "regex(True)", "regex(False)"
    c_out,       \* what the last regex call returned
    f_pc,        \* re_finder: "idle", "scan", "groups", "returned", "raised", "verified", "exit"
    f_input,     \* the sentences argument
    f_i,         \* sentences consumed so far
    f_keys,      \* splits_map: its keys in insertion order
    f_map,       \* splits_map: for each key (same index) the list of records
    f_max,       \* max_words_num
    f_g,         \* groups of splits_map.values() already assembled
    f_re_words,  \* re_words of the group being assembled
    f_re_strs,   \* re_strs
    f_result,    \* the returned pattern
    f_err        \* the exception re_finder raised ("" when none)

tvars == <<t_pc, t_sentence, t_rec, t_err, m_self, m_given, m_target, m_cur, m_prev, m_idx>>
cvars == <<c_obj, c_nput, c_call, c_out>>
fvars == <<f_pc, f_input, f_i, f_keys, f_map, f_max, f_g, f_re_words, f_re_strs, f_result, f_err>>
vars == <<tvars, cvars, fvars>>

-----------------------------------------------------------------------------
(* Characters *)

NL == "\n"

\* the grave accent, which a TLA+ string cannot hold, as a symbol of its own
BACKTICK == "GRAVE"

\* the members of [0-9], [1-9], [a-z], [A-Z] that the model's inputs use
DIGITS == {"0", "1", "2", "3", "4", "5", "6", "7", "8", "9"}
NONZERO == DIGITS \ {"0"}
LOWERS == {"a", "b", "c", "d", "e", "f", "g", "h", "i", "j", "k", "x"}
UPPERS == {"A", "B", "P", "S", "D"}
ALNUM == DIGITS \cup LOWERS \cup UPPERS

\* str.rstrip() strips these
WHITESPACE == {" ", NL}

\* the characters re.escape prefixes with a backslash (Python 3.7+)
ESCAPED == {"(", ")", "[", "]", "{", "}", "?", "*", "+", "-", "|", "^", "$",
            "\\", ".", "&", "~", "#", " ", NL}

-----------------------------------------------------------------------------
(* Sequence helpers *)

RECURSIVE Concat(_)
Concat(ss) == IF ss = <<>> THEN <<>> ELSE Head(ss) \o Concat(Tail(ss))

RECURSIVE Join(_, _)
\* sep.join(ss)
Join(sep, ss) ==
    IF ss = <<>> THEN <<>>
    ELSE IF Len(ss) = 1 THEN ss[1]
    ELSE ss[1] \o sep \o Join(sep, Tail(ss))

Reverse(s) == [i \in 1..Len(s) |-> s[Len(s) + 1 - i]]

Min(a, b) == IF a < b THEN a ELSE b
Max(a, b) == IF a > b THEN a ELSE b

\* length of the longest prefix of s whose characters all satisfy "in cs" (inside = TRUE)
\* or all satisfy "not in cs" (inside = FALSE)
Run(s, cs, inside) ==
    LET stops == {i \in 1..Len(s) : (s[i] \in cs) # inside}
    IN  IF stops = {} THEN Len(s)
        ELSE (CHOOSE i \in stops : \A j \in stops : i <= j) - 1

\* index of the first line feed of s, 0 when there is none
FirstNL(s) ==
    LET at == {i \in 1..Len(s) : s[i] = NL}
    IN  IF at = {} THEN 0 ELSE CHOOSE i \in at : \A j \in at : i <= j

RECURSIVE Strings(_, _)
\* all strings over cs of length at most n
Strings(cs, n) ==
    IF n = 0 THEN {<<>>}
    ELSE LET shorter == Strings(cs, n - 1)
         IN  shorter \cup {Append(s, c) : s \in shorter, c \in cs}

-----------------------------------------------------------------------------
(* SentenceSplit *)

SentenceSplit(prefix, suffix, words, delimiters) ==
    [prefix |-> prefix, suffix |-> suffix, words |-> words, delimiters |-> delimiters]

NoRecord == SentenceSplit(<<>>, <<>>, <<>>, <<>>)

\* re.match(PREFIX_RE, s) with PREFIX_RE = ^((?:[^0-9a-zA-Z])*)(.*)$ :
\* group 1 is the longest leading run of non-alphanumerics (line feeds included),
\* group 2 is what "." can take (no line feed), and "$" holds at the end of s or
\* just before a line feed that ends s.  No match is None.
PREFIX_RE(s) ==
    LET n    == Run(s, ALNUM, FALSE)
        rest == SubSeq(s, n + 1, Len(s))
        nl   == FirstNL(rest)
    IN  IF nl = 0
          THEN [matched |-> TRUE, g1 |-> SubSeq(s, 1, n), g2 |-> rest]
        ELSE IF nl = Len(rest)
          THEN [matched |-> TRUE, g1 |-> SubSeq(s, 1, n), g2 |-> SubSeq(rest, 1, nl - 1)]
        ELSE [matched |-> FALSE, g1 |-> <<>>, g2 |-> <<>>]

\* re.match(WORD_RE, s) with WORD_RE = ((?:[0-9a-zA-Z])*)(.*) : always matches;
\* group 2 stops before the first line feed
WORD_RE(s) ==
    LET n    == Run(s, ALNUM, TRUE)
        rest == SubSeq(s, n + 1, Len(s))
        nl   == FirstNL(rest)
    IN  [g1 |-> SubSeq(s, 1, n),
         g2 |-> IF nl = 0 THEN rest ELSE SubSeq(rest, 1, nl - 1)]

\* SentenceSplit.sentence
sentence(r) ==
    r.prefix
    \o Concat([i \in 1..Len(r.words) |->
                 r.words[i] \o (IF i <= Len(r.delimiters) THEN r.delimiters[i] ELSE <<>>)])
    \o r.suffix

RECURSIVE split_loop(_, _, _)
\* the while loop of split (lines 88-108); m.group on None raises AttributeError
split_loop(s, words, delimiters) ==
    IF Len(s) = 0 THEN [err |-> "", words |-> words, delimiters |-> delimiters]
    ELSE
      LET mw     == WORD_RE(s)
          word   == mw.g1
          s1     == mw.g2
          words1 == Append(words, word)
      IN  IF Len(word) = 0
            THEN [err |-> "AssertionError", words |-> words, delimiters |-> delimiters]
          ELSE IF Len(s1) = 0
            THEN [err |-> "", words |-> words1, delimiters |-> delimiters]
          ELSE
            LET md == PREFIX_RE(s1)
            IN  IF ~md.matched
                  THEN [err |-> "AttributeError", words |-> words1, delimiters |-> delimiters]
                ELSE IF Len(md.g1) = 0 \/ Len(md.g2) = 0
                  THEN [err |-> "AssertionError", words |-> words1, delimiters |-> delimiters]
                ELSE split_loop(md.g2, words1, Append(delimiters, md.g1))

\* SentenceSplit.split: [err, rec]; err is the exception raised, "" when it returns rec
split(origin_sentence) ==
    LET m1 == PREFIX_RE(origin_sentence)
    IN  IF ~m1.matched THEN [err |-> "AttributeError", rec |-> NoRecord]
        ELSE
          LET m2 == PREFIX_RE(Reverse(m1.g2))
          IN  IF ~m2.matched THEN [err |-> "AttributeError", rec |-> NoRecord]
              ELSE
                LET lp == split_loop(Reverse(m2.g2), <<>>, <<>>)
                    s  == SentenceSplit(m1.g1, Reverse(m2.g1), lp.words, lp.delimiters)
                IN  IF lp.err # "" THEN [err |-> lp.err, rec |-> NoRecord]
                    ELSE IF Len(lp.words) > 0 /\ Len(lp.words) # Len(lp.delimiters) + 1
                      THEN [err |-> "AssertionError", rec |-> NoRecord]
                    ELSE IF sentence(s) # origin_sentence
                      THEN [err |-> "AssertionError", rec |-> NoRecord]
                    ELSE [err |-> "", rec |-> s]

\* SentenceSplit.words_num
words_num(r) == Len(r.words)

\* the variant of type that joins the delimiters with nothing between them
type_nosep(r) ==
    <<"P">> \o r.prefix \o <<"S">> \o r.suffix \o <<"D">> \o Concat(r.delimiters)

\* SentenceSplit.type: f"P{prefix}S{suffix}D{'D'.join(delimiters)}"
type(r) ==
    <<"P">> \o r.prefix \o <<"S">> \o r.suffix \o <<"D">> \o Join(<<"D">>, r.delimiters)

\* str.rstrip()
rstrip(d) ==
    LET keep == {i \in 1..Len(d) : d[i] \notin WHITESPACE}
    IN  IF keep = {} THEN <<>>
        ELSE SubSeq(d, 1, CHOOSE i \in keep : \A j \in keep : j <= i)

\* SentenceSplit.delimiter_priority_map, in the dict's insertion order
delimiter_priority_map ==
    << [k |-> <<"_">>, v |-> 5],
       [k |-> <<" ">>, v |-> 4],
       [k |-> <<".">>, v |-> 3],
       [k |-> <<",", "!", "?", ":", ";">>, v |-> 2],
       [k |-> <<"'", "\"", BACKTICK>>, v |-> 1],
       [k |-> <<"(", ")", "<", ">", "{", "}">>, v |-> 0] >>

\* "d in k" for strings: d is a substring of k
IsSubstring(d, k) ==
    \E i \in 0..(Len(k) - Len(d)) : SubSeq(k, i + 1, i + Len(d)) = d

\* SentenceSplit._delimiter_priority
delimiter_priority(delimiter) ==
    LET stripped == rstrip(delimiter)
        d == IF Len(stripped) = 0 THEN <<" ">> ELSE stripped
        hits == {i \in 1..Len(delimiter_priority_map) :
                    IsSubstring(d, delimiter_priority_map[i].k)}
    IN  IF Len(d) > 1 THEN 6
        ELSE IF hits # {}
          THEN delimiter_priority_map[CHOOSE i \in hits : \A j \in hits : i <= j].v
        ELSE 4

\* the variant of max_priority_index that takes the last delimiter of the highest priority
max_priority_index_last(r) ==
    LET arr == [i \in 1..Len(r.delimiters) |-> delimiter_priority(r.delimiters[i])]
        best == {i \in 1..Len(arr) : \A j \in 1..Len(arr) : arr[j] <= arr[i]}
    IN  (CHOOSE i \in best : \A j \in best : j <= i) - 1

\* list.index(max(list)) over the priorities of r's delimiters, 0-based
max_priority_index(r) ==
    LET arr == [i \in 1..Len(r.delimiters) |-> delimiter_priority(r.delimiters[i])]
        best == {i \in 1..Len(arr) : \A j \in 1..Len(arr) : arr[j] <= arr[i]}
    IN  (CHOOSE i \in best : \A j \in best : i <= j) - 1

\* the variant of the fusion that joins the two words without the delimiter
merge_fuse_nodelim(r, idx) ==
    LET new_word == r.words[idx + 1] \o r.words[idx + 2]
    IN  SentenceSplit(r.prefix, r.suffix,
            SubSeq(r.words, 1, idx) \o <<new_word>> \o SubSeq(r.words, idx + 3, Len(r.words)),
            SubSeq(r.delimiters, 1, idx) \o SubSeq(r.delimiters, idx + 2, Len(r.delimiters)))

\* one fusion of merge (lines 157-165): the record the recursive call is made on
merge_fuse(r, idx) ==
    LET new_word == r.words[idx + 1] \o r.delimiters[idx + 1] \o r.words[idx + 2]
    IN  SentenceSplit(r.prefix, r.suffix,
            SubSeq(r.words, 1, idx) \o <<new_word>> \o SubSeq(r.words, idx + 3, Len(r.words)),
            SubSeq(r.delimiters, 1, idx) \o SubSeq(r.delimiters, idx + 2, Len(r.delimiters)))

-----------------------------------------------------------------------------
(* Inputs of the tokenizer and the merger *)

MaxLen == 5
MaxMergeWords == 3
MaxTarget == 3

\* every string of at most MaxLen characters over a word letter, a digit, two
\* delimiters and the line feed
SplitAlphabet == {"a", "1", "-", " ", NL}

\* delimiters of every priority class of _delimiter_priority, single and multi-character
MergeDelims ==
    { <<"_">>, <<" ">>, <<".">>, <<",">>, <<"'">>, <<"(">>, <<"[">>, <<"-">>,
      <<"-", "-">>, <<" ", "-", " ">>, <<"-", " ">>, <<" ", " ">> }

LETTERS == <<"a", "b", "c", "d", "e", "f", "g", "h", "i", "j", "k">>

RECURSIVE Interleave(_, _)
\* word 1, ds[1], word 2, ds[2], ..., the words being single letters in order
Interleave(ds, i) ==
    IF ds = <<>> THEN <<LETTERS[i]>>
    ELSE <<LETTERS[i]>> \o Head(ds) \o Interleave(Tail(ds), i + 1)

RECURSIVE DelimSeqs(_)
\* all sequences of 1..n delimiters of MergeDelims
DelimSeqs(n) ==
    IF n = 0 THEN {}
    ELSE LET less == DelimSeqs(n - 1)
         IN  {<<d>> : d \in MergeDelims} \cup less
             \cup {Append(ds, d) : ds \in less, d \in MergeDelims}

Sentences ==
    Strings(SplitAlphabet, MaxLen)
    \cup {Interleave(ds, 1) : ds \in DelimSeqs(MaxMergeWords - 1)}

-----------------------------------------------------------------------------
(* Tokenizer and merger as called from outside *)

TInit ==
    /\ t_pc = "idle"
    /\ t_sentence = <<>>
    /\ t_rec = NoRecord
    /\ t_err = ""
    /\ m_self = NoRecord
    /\ m_given = NoRecord
    /\ m_target = 0
    /\ m_cur = NoRecord
    /\ m_prev = NoRecord
    /\ m_idx = -1

\* SentenceSplit.split(s) returns
SplitReturn(s) ==
    /\ t_pc = "idle"
    /\ split(s).err = ""
    /\ t_pc' = "split"
    /\ t_sentence' = s
    /\ t_rec' = split(s).rec
    /\ UNCHANGED <<t_err, m_self, m_given, m_target, m_cur, m_prev, m_idx>>

\* SentenceSplit.split(s) raises
SplitRaise(s) ==
    /\ t_pc = "idle"
    /\ split(s).err # ""
    /\ t_pc' = "split_raised"
    /\ t_sentence' = s
    /\ t_err' = split(s).err
    /\ UNCHANGED <<t_rec, m_self, m_given, m_target, m_cur, m_prev, m_idx>>

\* t_rec.merge(target): the assertion of line 149, then the outermost call is entered
MergeCall(target) ==
    /\ t_pc = "split"
    /\ m_target' = target
    /\ m_self' = t_rec
    /\ m_given' = t_rec
    /\ m_cur' = t_rec
    /\ m_prev' = t_rec
    /\ IF target > 0
         THEN t_pc' = "merge" /\ UNCHANGED t_err
         ELSE t_pc' = "merge_raised" /\ t_err' = "AssertionError"
    /\ UNCHANGED <<t_sentence, t_rec, m_idx>>

\* the else branch of merge: one fusion, and the recursive call on the new record
MergeStep ==
    /\ t_pc = "merge"
    /\ words_num(m_cur) > m_target
    /\ LET idx == max_priority_index(m_cur)
       IN  /\ m_idx' = idx
           /\ m_prev' = m_cur
           /\ m_cur' = merge_fuse(m_cur, idx)
    /\ UNCHANGED <<t_pc, t_sentence, t_rec, t_err, m_self, m_given, m_target>>

\* the then branch of merge: return self, through every enclosing call
MergeReturn ==
    /\ t_pc = "merge"
    /\ words_num(m_cur) <= m_target
    /\ t_pc' = "merged"
    /\ UNCHANGED <<t_sentence, t_rec, t_err, m_self, m_given, m_target, m_cur, m_prev, m_idx>>

-----------------------------------------------------------------------------
(* Pattern text and Python's re matching *)

\* One token of pattern text: a metacharacter "(" ")" "|" "^" "$"; a literal
\* character as written ("lit") or behind a backslash ("esc"); a character
\* class ("cls"); a quantifier ("q": "*", "+", "?", "{,n}", "{m,n}").
Tok(k, c, lo, hi) == [k |-> k, c |-> c, lo |-> lo, hi |-> hi]
Meta(k) == Tok(k, "", 0, 0)
Cls(c) == Tok("cls", c, 0, 0)
Quant(c, lo, hi) == Tok("q", c, lo, hi)

\* re.escape(s), character by character
re_escape(s) ==
    [i \in 1..Len(s) |-> IF s[i] \in ESCAPED THEN Tok("esc", s[i], 0, 0)
                                              ELSE Tok("lit", s[i], 0, 0)]

\* '"|" in text' for pattern text: an alternation bar or an escaped bar
HasBar(p) == \E i \in 1..Len(p) : p[i].k = "|" \/ (p[i].k \in {"lit", "esc"} /\ p[i].c = "|")

\* whether character ch is in the class written c
InClass(c, ch) ==
    CASE c = "[1-9]" -> ch \in NONZERO
      [] c = "\\d" -> ch \in DIGITS
      [] c = "[a-z]" -> ch \in LOWERS
      [] c = "[A-Z]" -> ch \in UPPERS
      [] c = "[a-zA-Z]" -> ch \in LOWERS \cup UPPERS
      [] c = "[0-9a-zA-Z]" -> ch \in ALNUM
      [] c = "." -> ch # NL

\* whether the one-character atom tok matches ch
AtomOK(tok, ch) == IF tok.k = "cls" THEN InClass(tok.c, ch) ELSE ch = tok.c

RECURSIVE TopBars(_, _, _)
\* the indices, from i on, of the bars of p outside every group; depth is the
\* number of groups open at i
TopBars(p, i, depth) ==
    IF i > Len(p) THEN {}
    ELSE IF p[i].k = "(" THEN TopBars(p, i + 1, depth + 1)
    ELSE IF p[i].k = ")" THEN TopBars(p, i + 1, depth - 1)
    ELSE IF p[i].k = "|" /\ depth = 0 THEN {i} \cup TopBars(p, i + 1, depth)
    ELSE TopBars(p, i + 1, depth)

\* the alternatives of p: p cut at its bars outside every group
Alternatives(p) ==
    LET cuts == TopBars(p, 1, 0) \cup {0, Len(p) + 1}
    IN  {SubSeq(p, a + 1, (CHOOSE b \in cuts : b > a /\ \A c \in cuts : c > a => b <= c) - 1) :
            a \in cuts \ {Len(p) + 1}}

RECURSIVE Closing(_, _, _)
\* the index of the ")" that closes the group open at i, depth groups being open there
Closing(p, i, depth) ==
    IF p[i].k = "(" THEN Closing(p, i + 1, depth + 1)
    ELSE IF p[i].k = ")" THEN (IF depth = 1 THEN i ELSE Closing(p, i + 1, depth - 1))
    ELSE Closing(p, i + 1, depth)

\* the repetition bounds of quantifier token q on a subject of n characters
QuantLo(q) ==
    CASE q.c = "*" -> 0 [] q.c = "+" -> 1 [] q.c = "?" -> 0 [] q.c = "{,n}" -> 0
      [] q.c = "{m,n}" -> q.lo
QuantHi(q, n) ==
    CASE q.c = "*" -> n [] q.c = "+" -> n [] q.c = "?" -> 1 [] q.c = "{,n}" -> Min(q.hi, n)
      [] q.c = "{m,n}" -> Min(q.hi, n)

RECURSIVE Ends(_, _, _)
RECURSIVE SeqEnds(_, _, _)
\* The offsets of s at which a match of pattern p that starts at an offset of
\* from can end.  Backtracking tries every alternative and every repetition
\* count, so re.match finds a match exactly when some end offset passes "$".
Ends(p, s, from) ==
    IF from = {} THEN {} ELSE UNION {SeqEnds(a, s, from) : a \in Alternatives(p)}

\* the same for a pattern p without a bar outside its groups
SeqEnds(p, s, from) ==
    IF from = {} THEN {}
    ELSE IF p = <<>> THEN from
    ELSE
      LET h == p[1]
      IN  CASE h.k = "(" ->
                 LET c == Closing(p, 2, 1)
                 IN  SeqEnds(SubSeq(p, c + 1, Len(p)), s, Ends(SubSeq(p, 2, c - 1), s, from))
            [] h.k = "^" -> SeqEnds(Tail(p), s, from \cap {0})
            [] h.k = "$" ->
                 SeqEnds(Tail(p), s,
                         {q \in from : q = Len(s) \/ (q = Len(s) - 1 /\ s[Len(s)] = NL)})
            [] OTHER ->
                 LET quantified == Len(p) >= 2 /\ p[2].k = "q"
                     lo == IF quantified THEN QuantLo(p[2]) ELSE 1
                     hi == IF quantified THEN QuantHi(p[2], Len(s)) ELSE 1
                     rest == SubSeq(p, IF quantified THEN 3 ELSE 2, Len(p))
                 IN  SeqEnds(rest, s,
                             {bn[1] + bn[2] : bn \in
                                 {x \in from \X (lo..hi) :
                                     /\ x[1] + x[2] <= Len(s)
                                     /\ \A i \in 1..x[2] : AtomOK(h, s[x[1] + i])}})

\* re.match(p, s) is not None
re_match(p, s) == Ends(p, s, {0}) # {}

\* re.fullmatch(p, s) is not None
re_fullmatch(p, s) == Len(s) \in Ends(p, s, {0})

-----------------------------------------------------------------------------
(* WordClassfier *)

NUM_RE == <<Meta("^"), Cls("[1-9]"), Cls("\\d"), Quant("*", 0, 0), Meta("$")>>
ZERO_LEADABLE_NUM_RE == <<Meta("^"), Cls("\\d"), Quant("+", 0, 0), Meta("$")>>
LOWER_WORD_RE == <<Meta("^"), Cls("[a-z]"), Quant("+", 0, 0), Meta("$")>>
FIRST_UPPER_WORD_RE == <<Meta("^"), Cls("[A-Z]"), Cls("[a-z]"), Quant("*", 0, 0), Meta("$")>>
UPPER_WORD_RE == <<Meta("^"), Cls("[A-Z]"), Quant("+", 0, 0), Meta("$")>>
MIX_WORD_RE == <<Meta("^"), Cls("[a-zA-Z]"), Quant("+", 0, 0), Meta("$")>>
ALPHABETIC_NUMERIC_RE == <<Meta("^"), Cls("[0-9a-zA-Z]"), Quant("+", 0, 0), Meta("$")>>
OTHER_RE == <<Meta("^"), Cls("."), Quant("+", 0, 0), Meta("$")>>

REs == <<NUM_RE, ZERO_LEADABLE_NUM_RE, LOWER_WORD_RE, FIRST_UPPER_WORD_RE, UPPER_WORD_RE,
         MIX_WORD_RE, ALPHABETIC_NUMERIC_RE, OTHER_RE>>
RE_BASIC_LENS == <<1, 0, 0, 1, 0, 0, 0, 0>>

ENUM_NUM == 10
\* ENUM_RATIO_THRESHOLD = 0.1 as the fraction 1 / ENUM_RATIO_DEN: the float test
\* cnt / word_number > 0.1 is 10 * cnt > word_number (the division is correctly
\* rounded, so cnt / (10 * cnt) is the double the literal 0.1 denotes)
ENUM_RATIO_DEN == 10
\* the initial min_le of a bucket
MIN_LE_INIT == 10000000

\* WordClassfier(): card_map as the list of its items in insertion order
WordClassfier ==
    [card_map |-> <<>>,
     re_map |-> [rid \in 1..Len(REs) |-> [cnt |-> 0, min_le |-> MIN_LE_INIT, max_le |-> 0]],
     word_number |-> 0,
     words |-> <<>>]

\* the bucket put counts word into: the first RE of REs, in order, that matches
\* it (the break of line 224); 0 when none matches
first_match(word) ==
    LET hits == {rid \in 1..Len(REs) : re_match(REs[rid], word)}
    IN  IF hits = {} THEN 0 ELSE CHOOSE rid \in hits : \A other \in hits : rid <= other

\* WordClassfier.put
put(self, word) ==
    LET at == {i \in 1..Len(self.card_map) : self.card_map[i].w = word}
        card == IF at = {} THEN Append(self.card_map, [w |-> word, n |-> 1])
                ELSE [i \in 1..Len(self.card_map) |->
                        IF i \in at THEN [w |-> word, n |-> self.card_map[i].n + 1]
                        ELSE self.card_map[i]]
        rid == first_match(word)
    IN  [card_map |-> card,
         re_map |-> [r \in 1..Len(REs) |->
                        IF r = rid
                          THEN [cnt |-> self.re_map[r].cnt + 1,
                                min_le |-> Min(Len(word), self.re_map[r].min_le),
                                max_le |-> Max(Len(word), self.re_map[r].max_le)]
                          ELSE self.re_map[r]],
         word_number |-> self.word_number + 1,
         words |-> Append(self.words, word)]

RECURSIVE put_all(_, _)
\* WordClassfier.put_all
put_all(self, words) ==
    IF words = <<>> THEN self ELSE put_all(put(self, Head(words)), Tail(words))

\* min_le - basic_len of line 267
shape_min(min_le, basic_len) == min_le - basic_len

\* the fragment of one occupied bucket (lines 266-277): r[1:-2] drops "^" and the
\* RE's own quantifier and "$", then the observed length range is appended
shape_fragment(self, rid) ==
    LET r      == SubSeq(REs[rid], 2, Len(REs[rid]) - 2)
        min_le == shape_min(self.re_map[rid].min_le, RE_BASIC_LENS[rid])
        max_le == self.re_map[rid].max_le - RE_BASIC_LENS[rid]
    IN  IF min_le = 0
          THEN IF max_le = 1 THEN Append(r, Quant("?", 0, 1))
               ELSE Append(r, Quant("{,n}", 0, max_le))
        ELSE Append(r, Quant("{m,n}", min_le, max_le))

\* WordClassfier.regex(False)
regex_shape(self) ==
    LET occupied == {rid \in 1..Len(REs) : self.re_map[rid].cnt > 0}
        rank(rid) == Cardinality({o \in occupied : o <= rid})
        re_list == [i \in 1..Cardinality(occupied) |->
                      shape_fragment(self, CHOOSE rid \in occupied : rank(rid) = i)]
    IN  Join(<<Meta("|")>>, re_list)

\* one literal of an enumeration (lines 237-240, 255-258)
enum_literal(e) ==
    LET e_re == re_escape(e)
    IN  IF HasBar(e_re) THEN <<Meta("(")>> \o e_re \o <<Meta(")")>> ELSE e_re

\* the variant of the full-enumeration test with a strict comparison
full_enum_strict(self) == Len(self.card_map) < ENUM_NUM

\* the test of line 234
full_enum(self) == Len(self.card_map) <= ENUM_NUM

\* the set enums of lines 244-247
enums_of(self) ==
    {self.card_map[i].w : i \in {j \in 1..Len(self.card_map) :
        ENUM_RATIO_DEN * self.card_map[j].n > self.word_number}}

\* the orders in which a Python set holding the members of S can be iterated
Orders(S) ==
    {o \in [1..Cardinality(S) -> S] : \A i, j \in 1..Cardinality(S) : o[i] = o[j] => i = j}

\* the iteration orders of enums that regex(True) can meet: the set is built and
\* iterated only past the full enumeration of lines 234-241
EnumOrders(self) == IF full_enum(self) THEN {<<>>} ELSE Orders(enums_of(self))

\* the elements of list ws that are not in drop, in order
Filter(ws, drop) ==
    LET idx == {i \in 1..Len(ws) : ws[i] \notin drop}
        rank(i) == Cardinality({j \in idx : j <= i})
    IN  [k \in 1..Cardinality(idx) |-> ws[CHOOSE i \in idx : rank(i) = k]]

\* WordClassfier.regex(True); order is the iteration order of the set enums
regex_enum(self, order) ==
    IF full_enum(self)
      THEN <<Meta("(")>>
           \o Join(<<Meta("|")>>, [i \in 1..Len(self.card_map) |-> enum_literal(self.card_map[i].w)])
           \o <<Meta(")")>>
    ELSE IF enums_of(self) = {} THEN regex_shape(self)
    ELSE
      LET remain    == put_all(WordClassfier, Filter(self.words, enums_of(self)))
          remain_re == regex_shape(remain)
          enum_re   == <<Meta("(")>>
                       \o Join(<<Meta("|")>>, [i \in 1..Len(order) |-> enum_literal(order[i])])
                       \o <<Meta(")")>>
      IN  <<Meta("(")>> \o enum_re \o <<Meta("|")>> \o remain_re \o <<Meta(")")>>

-----------------------------------------------------------------------------
(* WordClassfier as called from outside *)

MaxPuts == 2
MaxRepeat == 2

\* non-empty words of every shape kind, and two with a line feed
PutWords ==
    { <<"5">>, <<"0", "5">>, <<"a", "b">>, <<"A", "b">>, <<"A">>, <<"A", "B">>, <<"a", "B">>,
      <<"a", "1">>, <<"a", "-", "b">>, <<"a", "b", NL>>, <<"a", NL, "b">> }

\* twelve distinct words each: numbers and lowercase words; lowercase words only;
\* words of every shape kind and a word with a bar
Bases ==
    { << <<"1">>, <<"2">>, <<"3">>, <<"4">>, <<"5">>, <<"6">>, <<"a", "a">>, <<"b", "b">>,
         <<"c", "c">>, <<"d", "d">>, <<"e", "e">>, <<"f", "f">> >>,
      << <<"a">>, <<"b">>, <<"c">>, <<"d">>, <<"e">>, <<"f">>, <<"g">>, <<"h">>,
         <<"i">>, <<"j">>, <<"k">>, <<"a", "b", "c">> >>,
      << <<"1", "2">>, <<"0", "5">>, <<"a", "b">>, <<"A", "b", "c">>, <<"A", "B">>, <<"a", "B">>,
         <<"a", "1">>, <<"a", "|", "b">>, <<"7">>, <<"b">>, <<"A">>, <<"x", "x", "x">> >> }

\* the first n words of a base followed by k more occurrences of its first word
Corpora ==
    UNION {{SubSeq(b, 1, n) \o [i \in 1..k |-> b[1]] : n \in 1..Len(b), k \in 0..MaxRepeat} :
           b \in Bases}

CInit ==
    /\ c_obj = WordClassfier
    /\ c_nput = 0
    /\ c_call = "init"
    /\ c_out = <<>>

\* c_obj.put(word)
Put(word) ==
    /\ c_nput < MaxPuts
    /\ c_obj' = put(c_obj, word)
    /\ c_nput' = c_nput + 1
    /\ c_call' = "put"
    /\ c_out' = <<>>

\* WordClassfier().put_all(words): every call of put_all is on a new instance
PutAll(words) ==
    /\ c_call = "init"
    /\ c_obj' = put_all(c_obj, words)
    /\ c_call' = "put_all"
    /\ UNCHANGED <<c_nput, c_out>>

\* c_obj.regex(), in any iteration order of the set enums
RegexEnum ==
    /\ c_call \in {"put", "put_all", "init"}
    /\ \E order \in EnumOrders(c_obj) :
          c_out' = regex_enum(c_obj, order)
    /\ c_call' = "regex(True)"
    /\ UNCHANGED <<c_obj, c_nput>>

\* c_obj.regex(False)
RegexShape ==
    /\ c_call \in {"put", "put_all", "init"}
    /\ c_out' = regex_shape(c_obj)
    /\ c_call' = "regex(False)"
    /\ UNCHANGED <<c_obj, c_nput>>

-----------------------------------------------------------------------------
(* re_finder and the verification loop of __main__ *)

MaxSentences == 2

FSentences ==
    { <<>>, <<"a">>, <<"b", "1">>, <<"D">>, <<"-">>, <<"-", "a">>, <<"a", "-">>,
      <<"a", "-", "b">>, <<"a", "-", "-", "b">>, <<"a", "-", "b", "-", "c">>,
      <<"a", " ", "b">>, <<"a", NL>> }

\* the sentence made of word w: alone, behind a dollar sign, or before " x"
Framed(w, frame) ==
    CASE frame = 1 -> w
      [] frame = 2 -> <<"$">> \o w
      [] frame = 3 -> w \o <<" ", "x">>

FInputs ==
    UNION {[1..n -> FSentences] : n \in 0..MaxSentences}
    \cup {[i \in 1..Len(ws) |-> Framed(ws[i], frame)] : ws \in Corpora, frame \in 1..3}

FInit ==
    /\ f_pc = "idle"
    /\ f_input = <<>>
    /\ f_i = 0
    /\ f_keys = <<>>
    /\ f_map = <<>>
    /\ f_max = 0
    /\ f_g = 0
    /\ f_re_words = <<>>
    /\ f_re_strs = <<>>
    /\ f_result = <<>>
    /\ f_err = ""

\* SentenceSplit.regex
SentenceSplit_regex(r) ==
    LET temp == (IF Len(r.prefix) = 0 THEN <<>> ELSE re_escape(r.prefix))
                \o Concat([i \in 1..Len(r.words) |->
                             r.words[i] \o (IF i <= Len(r.delimiters)
                                              THEN re_escape(r.delimiters[i]) ELSE <<>>)])
                \o (IF Len(r.suffix) = 0 THEN <<>> ELSE re_escape(r.suffix))
    IN  IF Len(temp) = 0 THEN <<Meta("("), Meta(")")>> ELSE temp

\* re_finder(sentences) is called
FCall(sentences) ==
    /\ f_pc = "idle"
    /\ f_pc' = "scan"
    /\ f_input' = sentences
    /\ UNCHANGED <<f_i, f_keys, f_map, f_max, f_g, f_re_words, f_re_strs, f_result, f_err>>

\* one pass of the loop of lines 289-296
FScan ==
    /\ f_pc = "scan"
    /\ f_i < Len(f_input)
    /\ LET res == split(f_input[f_i + 1])
           t   == type(res.rec)
           at  == {k \in 1..Len(f_keys) : f_keys[k] = t}
       IN  IF res.err # ""
             THEN /\ f_pc' = "raised"
                  /\ f_err' = res.err
                  /\ UNCHANGED <<f_i, f_keys, f_map, f_max>>
             ELSE /\ f_i' = f_i + 1
                  /\ f_max' = Max(words_num(res.rec), f_max)
                  /\ IF at # {}
                       THEN /\ f_keys' = f_keys
                            /\ f_map' = [k \in 1..Len(f_map) |->
                                           IF k \in at THEN Append(f_map[k], res.rec) ELSE f_map[k]]
                       ELSE /\ f_keys' = Append(f_keys, t)
                            /\ f_map' = Append(f_map, <<res.rec>>)
                  /\ UNCHANGED <<f_pc, f_err>>
    /\ UNCHANGED <<f_input, f_g, f_re_words, f_re_strs, f_result>>

\* the sentences are exhausted: the loop over splits_map.values() starts
FScanned ==
    /\ f_pc = "scan"
    /\ f_i = Len(f_input)
    /\ f_pc' = "groups"
    /\ UNCHANGED <<f_input, f_i, f_keys, f_map, f_max, f_g, f_re_words, f_re_strs, f_result, f_err>>

\* one pass of the loop of lines 316-319 for the group being assembled;
\* split.words[words_index] raises IndexError on a record with fewer words
FWord ==
    /\ f_pc = "groups"
    /\ f_g < Len(f_map)
    /\ LET splits == f_map[f_g + 1]
           one    == splits[1]
           words_index == Len(f_re_words)
       IN  /\ words_index < words_num(one)
           /\ IF \E k \in 1..Len(splits) : words_num(splits[k]) <= words_index
                THEN /\ f_pc' = "raised"
                     /\ f_err' = "IndexError"
                     /\ UNCHANGED f_re_words
                ELSE LET words == [k \in 1..Len(splits) |-> splits[k].words[words_index + 1]]
                         cls   == put_all(WordClassfier, words)
                     IN  /\ \E order \in EnumOrders(cls) :
                                f_re_words' = Append(f_re_words, regex_enum(cls, order))
                         /\ UNCHANGED <<f_pc, f_err>>
    /\ UNCHANGED <<f_input, f_i, f_keys, f_map, f_max, f_g, f_re_strs, f_result>>

\* lines 321-325: the group's pattern
FGroup ==
    /\ f_pc = "groups"
    /\ f_g < Len(f_map)
    /\ LET one == f_map[f_g + 1][1]
           re_str == SentenceSplit_regex(
                        SentenceSplit(one.prefix, one.suffix, f_re_words, one.delimiters))
       IN  /\ Len(f_re_words) = words_num(one)
           /\ f_re_strs' = Append(f_re_strs,
                  IF HasBar(re_str) THEN <<Meta("(")>> \o re_str \o <<Meta(")")>> ELSE re_str)
    /\ f_g' = f_g + 1
    /\ f_re_words' = <<>>
    /\ UNCHANGED <<f_pc, f_input, f_i, f_keys, f_map, f_max, f_result, f_err>>

\* line 328
FReturn ==
    /\ f_pc = "groups"
    /\ f_g = Len(f_map)
    /\ f_pc' = "returned"
    /\ f_result' = <<Meta("^"), Meta("(")>> \o Join(<<Meta("|")>>, f_re_strs)
                   \o <<Meta(")"), Meta("$")>>
    /\ UNCHANGED <<f_input, f_i, f_keys, f_map, f_max, f_g, f_re_words, f_re_strs, f_err>>

\* the loop of lines 339-345 finds a match for every sentence
VerifyOk ==
    /\ f_pc = "returned"
    /\ \A k \in 1..Len(f_input) : re_match(f_result, f_input[k])
    /\ f_pc' = "verified"
    /\ UNCHANGED <<f_input, f_i, f_keys, f_map, f_max, f_g, f_re_words, f_re_strs, f_result, f_err>>

\* the loop of lines 339-345 meets a sentence without a match: exit(-1)
VerifyExit ==
    /\ f_pc = "returned"
    /\ \E k \in 1..Len(f_input) : ~re_match(f_result, f_input[k])
    /\ f_pc' = "exit"
    /\ UNCHANGED <<f_input, f_i, f_keys, f_map, f_max, f_g, f_re_words, f_re_strs, f_result, f_err>>

-----------------------------------------------------------------------------
(* Specifications *)

Init == TInit /\ CInit /\ FInit

\* the tokenizer and the merger
Next ==
    \/ /\ t_pc = "idle"
       /\ \E s \in Sentences : SplitReturn(s)
       /\ UNCHANGED <<cvars, fvars>>
    \/ /\ t_pc = "idle"
       /\ \E s \in Sentences : SplitRaise(s)
       /\ UNCHANGED <<cvars, fvars>>
    \/ \E target \in 0..MaxTarget : MergeCall(target) /\ UNCHANGED <<cvars, fvars>>
    \/ MergeStep /\ UNCHANGED <<cvars, fvars>>
    \/ MergeReturn /\ UNCHANGED <<cvars, fvars>>

Spec == Init /\ [][Next]_vars

\* one classifier, fed word by word
ClsNext ==
    \/ \E word \in PutWords : Put(word) /\ UNCHANGED <<tvars, fvars>>
    \/ RegexEnum /\ UNCHANGED <<tvars, fvars>>
    \/ RegexShape /\ UNCHANGED <<tvars, fvars>>

ClsSpec == Init /\ [][ClsNext]_vars

\* one classifier, fed a whole list of words
EnumNext ==
    \/ /\ c_call = "init"
       /\ \E words \in Corpora : PutAll(words)
       /\ UNCHANGED <<tvars, fvars>>
    \/ RegexEnum /\ UNCHANGED <<tvars, fvars>>
    \/ RegexShape /\ UNCHANGED <<tvars, fvars>>

EnumSpec == Init /\ [][EnumNext]_vars

\* the driver
FinderNext ==
    \/ /\ f_pc = "idle"
       /\ \E sentences \in FInputs : FCall(sentences)
       /\ UNCHANGED <<tvars, cvars>>
    \/ FScan /\ UNCHANGED <<tvars, cvars>>
    \/ FScanned /\ UNCHANGED <<tvars, cvars>>
    \/ FWord /\ UNCHANGED <<tvars, cvars>>
    \/ FGroup /\ UNCHANGED <<tvars, cvars>>
    \/ FReturn /\ UNCHANGED <<tvars, cvars>>
    \/ VerifyOk /\ UNCHANGED <<tvars, cvars>>
    \/ VerifyExit /\ UNCHANGED <<tvars, cvars>>

FinderSpec == Init /\ [][FinderNext]_vars

-----------------------------------------------------------------------------
(* Claims about the tokenizer and the merger, under Spec *)

\* C2: split returns a record for every input string, the empty one included, and
\* the record's sentence() is the input string.
C2_TokenizerTotalRoundTrip ==
    /\ t_pc # "split_raised"
    /\ t_pc # "idle" => sentence(t_rec) = t_sentence

\* C6: merge(target) with target >= 1 on a well-formed record returns the record
\* itself when it has at most target words; otherwise every call on the way has a
\* delimiter to fuse, and the record returned has exactly target words, the same
\* prefix and suffix and the same sentence(); the record merge was called on is
\* as it was.
C6_MergeBoundary ==
    /\ (t_pc = "merge" /\ words_num(m_cur) > m_target) => Len(m_cur.delimiters) > 0
    /\ t_pc = "merged" =>
          /\ m_self = m_given
          /\ words_num(m_given) <= m_target => m_cur = m_self
          /\ words_num(m_given) > m_target =>
                /\ words_num(m_cur) = m_target
                /\ m_cur.prefix = m_given.prefix
                /\ m_cur.suffix = m_given.suffix
                /\ sentence(m_cur) = sentence(m_given)

\* a merge that took two fusions has returned
C6_Witness ==
    /\ t_pc = "merged"
    /\ m_target >= 1
    /\ words_num(m_given) = m_target + 2
    /\ words_num(m_cur) = m_target

\* the quote characters and the bracket characters
QUOTES == {"'", "\"", BACKTICK}
BRACKETS == {"(", ")", "<", ">", "{", "}", "[", "]"}

\* The priority the claim gives delimiter d, brackets being the characters of
\* zero: 6 when d without its trailing whitespace is longer than one character,
\* else by the one character left (a delimiter of whitespace only counts as a space).
StatedPriority(d, zero) ==
    LET keep == {i \in 1..Len(d) : d[i] \notin WHITESPACE}
        last == IF keep = {} THEN 0 ELSE CHOOSE i \in keep : \A j \in keep : j <= i
        ch   == IF last = 0 THEN " " ELSE d[1]
    IN  IF last > 1 THEN 6
        ELSE CASE ch = "_" -> 5
               [] ch = "." -> 3
               [] ch \in {",", "!", "?", ";", ":"} -> 2
               [] ch \in QUOTES -> 1
               [] ch \in zero -> 0
               [] OTHER -> 4

\* The last fusion, from m_prev to m_cur, took the leftmost delimiter of the highest
\* stated priority and replaced the two words around it by word+delimiter+word,
\* every other word and delimiter keeping its place in the order.
StatedFusion(zero) ==
    m_idx >= 0 =>
      LET ds == m_prev.delimiters
          ws == m_prev.words
          k  == m_idx + 1
      IN  /\ k \in 1..Len(ds)
          /\ \A j \in 1..Len(ds) : StatedPriority(ds[j], zero) <= StatedPriority(ds[k], zero)
          /\ \A j \in 1..(k - 1) : StatedPriority(ds[j], zero) < StatedPriority(ds[k], zero)
          /\ Len(m_cur.words) = Len(ws) - 1
          /\ Len(m_cur.delimiters) = Len(ds) - 1
          /\ m_cur.words[k] = ws[k] \o ds[k] \o ws[k + 1]
          /\ \A j \in 1..Len(m_cur.words) :
                j # k => m_cur.words[j] = (IF j < k THEN ws[j] ELSE ws[j + 1])
          /\ \A j \in 1..Len(m_cur.delimiters) :
                m_cur.delimiters[j] = (IF j < k THEN ds[j] ELSE ds[j + 1])

-----------------------------------------------------------------------------
(* Claims about the driver, under FinderSpec *)

\* C1: the pattern re_finder returns matches, as a whole-string match, every
\* sentence it was given.
C1_Coverage ==
    f_pc = "returned" => \A k \in 1..Len(f_input) : re_fullmatch(f_result, f_input[k])

\* C3: the records of one group of splits_map all have the same number of words.
C3_CommonWordCount ==
    \A g \in 1..Len(f_map) : \A i, j \in 1..Len(f_map[g]) :
        words_num(f_map[g][i]) = words_num(f_map[g][j])

\* C4: two tokenized sentences are in the same group of splits_map exactly when
\* their prefixes, their suffixes and their delimiter sequences are equal,
\* whatever their words.
C4_GroupingCorrectness ==
    \A g, h \in 1..Len(f_map) : \A i \in 1..Len(f_map[g]) : \A j \in 1..Len(f_map[h]) :
        (g = h) <=> (/\ f_map[g][i].prefix = f_map[h][j].prefix
                     /\ f_map[g][i].suffix = f_map[h][j].suffix
                     /\ f_map[g][i].delimiters = f_map[h][j].delimiters)

\* two sentences of different words and the same two delimiters share a group,
\* or two sentences of different delimiter sequences are in two groups
C4_Witness ==
    /\ f_pc = "groups"
    /\ \/ /\ Len(f_map) = 1
          /\ Len(f_map[1]) = 2
          /\ f_map[1][1].words # f_map[1][2].words
          /\ Len(f_map[1][1].delimiters) = 1
       \/ /\ Len(f_map) = 2
          /\ Len(f_map[1][1].delimiters) = 2
          /\ Len(f_map[2][1].delimiters) = 1

-----------------------------------------------------------------------------
(* Claims about WordClassfier.regex(), under EnumSpec *)

\* occurrences of word w in the list ws
Occurrences(ws, w) == Cardinality({i \in 1..Len(ws) : ws[i] = w})

\* the distinct words of the list ws
Distinct(ws) == {ws[i] : i \in 1..Len(ws)}

\* the words of ws whose frequency ratio is strictly above 1 / ENUM_RATIO_DEN
Frequent(ws) == {w \in Distinct(ws) : ENUM_RATIO_DEN * Occurrences(ws, w) > Len(ws)}

\* the literal words of pattern p: its maximal runs of literal characters
LiteralWords(p) ==
    LET lit(i) == p[i].k \in {"lit", "esc"}
        starts == {i \in 1..Len(p) : lit(i) /\ (i = 1 \/ ~lit(i - 1))}
        stop(i) == CHOOSE j \in i..Len(p) :
                      /\ \A m \in i..j : lit(m)
                      /\ (j = Len(p) \/ ~lit(j + 1))
    IN  {[m \in 1..(stop(i) - i + 1) |-> p[i + m - 1].c] : i \in starts}

\* the number of alternation bars of pattern p
Bars(p) == Cardinality({i \in 1..Len(p) : p[i].k = "|"})

\* whether pattern p has a character class
HasClass(p) == \E i \in 1..Len(p) : p[i].k = "cls"

C10_SelfContainedFragment ==
    c_call = "regex(True)" => TopBars(c_out, 1, 0) = {}

-----------------------------------------------------------------------------
(* Claims about WordClassfier.put and regex(False), under ClsSpec *)

\* the shape kind of word w in the priority order of the claim, 0 when it has
\* none: 1 positive integer, 2 digits, 3 lowercase, 4 capitalized, 5 uppercase,
\* 6 letters, 7 letters and digits, 8 any other non-empty word
ShapeKind(w) ==
    LET all(cs) == \A i \in 1..Len(w) : w[i] \in cs
    IN  CASE Len(w) = 0 -> 0
          [] all(DIGITS) /\ w[1] # "0" -> 1
          [] all(DIGITS) -> 2
          [] all(LOWERS) -> 3
          [] w[1] \in UPPERS /\ (\A i \in 2..Len(w) : w[i] \in LOWERS) -> 4
          [] all(UPPERS) -> 5
          [] all(LOWERS \cup UPPERS) -> 6
          [] all(ALNUM) -> 7
          [] OTHER -> 8

RECURSIVE SumCnt(_, _)
SumCnt(re_map, n) == IF n = 0 THEN 0 ELSE re_map[n].cnt + SumCnt(re_map, n - 1)

RECURSIVE SumCard(_, _)
SumCard(card_map, n) == IF n = 0 THEN 0 ELSE card_map[n].n + SumCard(card_map, n - 1)

\* C7: every word put so far is counted in the bucket of its shape kind, the
\* first kind in the priority order that it satisfies, and in no other, and once
\* in the occurrence map; the bucket counts and the occurrence counts each sum to
\* word_number.
C7_ProfileInvariant ==
    /\ \A rid \in 1..Len(REs) :
          c_obj.re_map[rid].cnt =
             Cardinality({i \in 1..Len(c_obj.words) : ShapeKind(c_obj.words[i]) = rid})
    /\ SumCnt(c_obj.re_map, Len(REs)) = c_obj.word_number
    /\ SumCard(c_obj.card_map, Len(c_obj.card_map)) = c_obj.word_number
    /\ \A w \in Distinct(c_obj.words) :
          \E i \in 1..Len(c_obj.card_map) :
             c_obj.card_map[i].w = w /\ c_obj.card_map[i].n = Occurrences(c_obj.words, w)

\* the alternatives of pattern p, in order
AlternativeList(p) ==
    LET bars == TopBars(p, 1, 0)
        cut(n) == IF n = 0 THEN 0
                  ELSE IF n > Cardinality(bars) THEN Len(p) + 1
                  ELSE CHOOSE b \in bars : Cardinality({c \in bars : c <= b}) = n
    IN  [n \in 1..(Cardinality(bars) + 1) |-> SubSeq(p, cut(n - 1) + 1, cut(n) - 1)]

\* the character class tokens of shape kind rid
ShapeClasses(rid) ==
    CASE rid = 1 -> <<Cls("[1-9]"), Cls("\\d")>>
      [] rid = 2 -> <<Cls("\\d")>>
      [] rid = 3 -> <<Cls("[a-z]")>>
      [] rid = 4 -> <<Cls("[A-Z]"), Cls("[a-z]")>>
      [] rid = 5 -> <<Cls("[A-Z]")>>
      [] rid = 6 -> <<Cls("[a-zA-Z]")>>
      [] rid = 7 -> <<Cls("[0-9a-zA-Z]")>>
      [] rid = 8 -> <<Cls(".")>>

\* C8: regex(False) returns, joined by bars and in priority order, one fragment
\* for each bucket with a count above 0 and none for the others; the fragment is
\* the bucket's character class repeated between the shortest and the longest
\* length of the words counted into the bucket, less the basic length ("?" for
\* {0,1}), and it matches, as a whole-string match, each of those words.
C8_ShapeRendering ==
    c_call = "regex(False)" =>
       LET occupied == {rid \in 1..Len(REs) : c_obj.re_map[rid].cnt > 0}
           frags == IF occupied = {} THEN <<>> ELSE AlternativeList(c_out)
           nth(n) == CHOOSE rid \in occupied : Cardinality({o \in occupied : o <= rid}) = n
           counted(rid) == {i \in 1..Len(c_obj.words) : first_match(c_obj.words[i]) = rid}
       IN  /\ occupied = {} => c_out = <<>>
           /\ Len(frags) = Cardinality(occupied)
           /\ \A n \in 1..Len(frags) :
                 LET rid  == nth(n)
                     lens == {Len(c_obj.words[i]) : i \in counted(rid)}
                     lo   == (CHOOSE l \in lens : \A m \in lens : l <= m) - RE_BASIC_LENS[rid]
                     hi   == (CHOOSE l \in lens : \A m \in lens : l >= m) - RE_BASIC_LENS[rid]
                     q    == frags[n][Len(frags[n])]
                 IN  /\ SubSeq(frags[n], 1, Len(frags[n]) - 1) = ShapeClasses(rid)
                     /\ q.k = "q"
                     /\ QuantLo(q) = lo
                     /\ QuantHi(q, hi) = hi
                     /\ (q.c = "?") <=> (lo = 0 /\ hi = 1)
                     /\ \A i \in counted(rid) : re_fullmatch(frags[n], c_obj.words[i])

=============================================================================
